---- MODULE Spec2Model ----
(***************************************************************************)
(* Model of the agent directory client (a2a_client.py, A2AToolClient) and  *)
(* of the linear workflow orchestrator (simple_orchestrator.py,            *)
(* SimpleOrchestrator) that drives it.                                     *)
(*                                                                         *)
(* Strings are sequences of tokens.  A URL is a host token followed by     *)
(* zero or more "/" tokens; a text is a sequence of text tokens, the       *)
(* marker the orchestrator looks for being the single token "Error:".      *)
(* The remote endpoints are the environment: each HTTP exchange draws its  *)
(* outcome from the outcomes the HTTP libraries can produce.               *)
(***************************************************************************)
EXTENDS Integers, Sequences, FiniteSets, TLC

\* ------------------------------------------------------------------ bounds
\* Largest number of trailing slashes on a URL argument.
MaxSlashes == 1
\* Largest number of endpoints tracked by a client that is used on its own.
MaxTracked == 2
\* Largest number of characters by which an agent's text exceeds the longer
\* cutoff of the orchestrator.
MaxOver == 1
\* Largest number of artifacts in a response, and of parts in an artifact.
MaxParts == 2
\* Largest number of task requests whose identifiers are followed.
MaxRequests == 2
\* Largest number of create_task coroutines in flight together.
MaxCalls == 2
\* Largest number of items the graph streams.
MaxItems == 3

\* ------------------------------------------------------- program constants
ResearchCutoff == 2000
ReportCutoff == 1500

\* SimpleOrchestrator.agents
agents ==
  [research_analyst |-> <<"http://localhost:10031">>,
   data_processor   |-> <<"http://localhost:10032">>,
   report_writer    |-> <<"http://localhost:10033">>]

StageNames == <<"research_analyst", "data_processor", "report_writer">>

Hosts == {agents[n][1] : n \in DOMAIN agents}

RECURSIVE Slashes(_)
Slashes(n) == IF n = 0 THEN <<>> ELSE <<"/">> \o Slashes(n - 1)

\* URL arguments a caller may pass: every host in every spelling.
URLArgs == {<<h>> \o Slashes(n) : h \in Hosts, n \in 0..MaxSlashes}

\* str.rstrip('/'): drops every trailing "/" of the string.
RECURSIVE rstrip(_)
rstrip(u) ==
  IF u # <<>> /\ u[Len(u)] = "/" THEN rstrip(SubSeq(u, 1, Len(u) - 1)) ELSE u

\* --------------------------------------------------- metadata documents
\* The value None of the cache: registered, metadata not fetched.  It is
\* also what response.json() yields for the JSON body null.
None == [k |-> "None", url |-> <<>>]
\* A JSON object that is not a valid agent card.
BadSchemaDoc == [k |-> "dict", url |-> <<>>]
\* A JSON object that validates as an AgentCard and declares url.
CardDoc(url) == [k |-> "card", url |-> url]

\* A url that is none of the registered endpoints.
ElsewhereURL == <<"http://elsewhere:9999">>

\* The kinds of answer an endpoint may give to the metadata fetch: three
\* failures, the JSON body null, a JSON object that is no agent card, and a
\* card declaring either the endpoint's own address in the form the servers
\* of this repository declare, 'http://{host}:{port}/', or another address.
AnswerKinds ==
  {"connect_error", "http_error", "not_json", "null", "bad_schema", "card_own", "card_elsewhere"}

\* Outcome of GET {url}/.well-known/agent.json followed by
\* raise_for_status() and json(), for an endpoint answering in kind a.
GetOutcome(url, a) ==
  CASE a = "null" -> [k |-> "json", doc |-> None]
    [] a = "bad_schema" -> [k |-> "json", doc |-> BadSchemaDoc]
    [] a = "card_own" -> [k |-> "json", doc |-> CardDoc(url \o <<"/">>)]
    [] a = "card_elsewhere" -> [k |-> "json", doc |-> CardDoc(ElsewhereURL)]
    [] OTHER -> [k |-> a, doc |-> None]

\* The answers that carry a JSON document, and those that carry an object.
JsonAnswers == {"null", "bad_schema", "card_own", "card_elsewhere"}
ObjectAnswers == {"bad_schema", "card_own", "card_elsewhere"}

\* ------------------------------------------------------------------ texts
ErrorMarker == "Error:"

\* "Error:" in t
HasErrorMarker(t) == SelectSeq(t, LAMBDA x : x = ErrorMarker) # <<>>

Min(a, b) == IF a < b THEN a ELSE b

\* s[:n]
Take(s, n) == SubSeq(s, 1, Min(n, Len(s)))

\* A text of n characters: "a" up to the shorter cutoff, "b" from there up to
\* the longer one, "c" beyond it.
Fill(n) ==
  [i \in 1..n |-> IF i <= ReportCutoff THEN "a" ELSE IF i <= ResearchCutoff THEN "b" ELSE "c"]

\* Texts a remote agent may answer with.
AgentTexts == {<<"R">>, <<ErrorMarker, "R">>}

\* Texts as long as the longer cutoff and longer, which the agents of a
\* pipeline run may also answer with.
LongTexts == {Fill(ResearchCutoff + k) : k \in 0..MaxOver}

\* ------------------------------------------------- response envelopes
TextPart(t) == [hasText |-> TRUE, text |-> t]
DataPart == [hasText |-> FALSE, text |-> <<>>]
Artifact(ps) == [hasParts |-> TRUE, parts |-> ps]
ArtifactNoParts == [hasParts |-> FALSE, parts |-> <<>>]
Envelope(as) == [hasArtifacts |-> TRUE, artifacts |-> as]
EnvelopeNoArtifacts == [hasArtifacts |-> FALSE, artifacts |-> <<>>]

Envelopes ==
  {Envelope(<<Artifact(<<TextPart(t)>>)>>) : t \in AgentTexts}
  \cup {Envelope(<<ArtifactNoParts, Artifact(<<DataPart, TextPart(<<"R">>)>>)>>),
        Envelope(<<Artifact(<<DataPart>>)>>),
        EnvelopeNoArtifacts}

\* The sequences over S of length at most n.
SeqsUpTo(S, n) == UNION {[1..k -> S] : k \in 0..n}

\* Responses of every shape: any artifacts, each without parts or with any
\* parts, a part carrying one of two texts or no text field.
PartKinds == {TextPart(<<"R">>), TextPart(<<"P">>), DataPart}
RichArtifacts == {ArtifactNoParts} \cup {Artifact(ps) : ps \in SeqsUpTo(PartKinds, MaxParts)}
RichEnvelopes ==
  {EnvelopeNoArtifacts} \cup {Envelope(as) : as \in SeqsUpTo(RichArtifacts, MaxParts)}

\* Outcomes of A2AClient.send_message(request).
SendOutcomes ==
  {[k |-> "request_error", env |-> EnvelopeNoArtifacts],
   [k |-> "client_error", env |-> EnvelopeNoArtifacts]}
  \cup {[k |-> "response", env |-> e] : e \in Envelopes}

NoSend == [k |-> "none", env |-> EnvelopeNoArtifacts]

\* Responses of send_message that carry a long text.
LongSendOutcomes ==
  {[k |-> "response", env |-> Envelope(<<Artifact(<<TextPart(t)>>)>>)] : t \in LongTexts}

\* Responses of send_message whose text carries the marker past its start.
MarkedSendOutcomes ==
  {[k |-> "response",
    env |-> Envelope(<<Artifact(<<TextPart(<<"R", ErrorMarker, "R">>)>>)>>)]}

\* ------------------------------------------------------------ the dict
\* A Python dict: a sequence of entries in insertion order, keys unique.
DictKeys(d) == {d[i].url : i \in 1..Len(d)}
DictHas(d, key) == \E i \in 1..Len(d) : d[i].url = key
DictGet(d, key) == d[CHOOSE i \in 1..Len(d) : d[i].url = key].info
DictSet(d, key, v) ==
  IF DictHas(d, key)
  THEN [i \in 1..Len(d) |-> IF d[i].url = key THEN [url |-> key, info |-> v] ELSE d[i]]
  ELSE Append(d, [url |-> key, info |-> v])
DictDel(d, key) == SelectSeq(d, LAMBDA e : e.url # key)

\* ------------------------------------------------------ A2AToolClient
\* What a call hands back: a returned value or a raised exception.
Returned(why, v) == [kind |-> "ret", why |-> why, val |-> v]
Raised(why, v) == [kind |-> "raise", why |-> why, val |-> v]
NoCall == [kind |-> "none", why |-> "none", val |-> <<>>]

\* add_remote_agent storing the url as given, without rstrip.
add_remote_agent_unnormalized(cache, agent_url) ==
  IF ~DictHas(cache, agent_url)
  THEN DictSet(cache, agent_url, None)
  ELSE cache

\* add_remote_agent without its membership test: the entry is reset.
add_remote_agent_reset(cache, agent_url) ==
  DictSet(cache, rstrip(agent_url), None)

\* A2AToolClient.add_remote_agent
add_remote_agent(cache, agent_url) ==
  LET normalized_url == rstrip(agent_url)
  IN IF ~DictHas(cache, normalized_url)
     THEN DictSet(cache, normalized_url, None)
     ELSE cache

\* remove_remote_agent looking the url up as given, without rstrip.
remove_remote_agent_unnormalized(cache, agent_url) ==
  IF DictHas(cache, agent_url)
  THEN DictDel(cache, agent_url)
  ELSE cache

\* A2AToolClient.remove_remote_agent
remove_remote_agent(cache, agent_url) ==
  LET normalized_url == rstrip(agent_url)
  IN IF DictHas(cache, normalized_url)
     THEN DictDel(cache, normalized_url)
     ELSE cache

\* The loop of list_remote_agents without its except clauses: the first
\* failing fetch ends the listing with the exception.
RECURSIVE ListLoop_uncaught(_, _, _, _, _)
ListLoop_uncaught(cache, i, g, agent_infos, fetches) ==
  IF i > Len(cache)
  THEN [cache |-> cache, ret |-> Returned("list", agent_infos),
        fetches |-> fetches, posts |-> <<>>]
  ELSE LET url == cache[i].url
           cached_info == cache[i].info
       IN IF cached_info # None
          THEN ListLoop_uncaught(cache, i + 1, g, Append(agent_infos, cached_info), fetches)
          ELSE LET response == GetOutcome(url, g[url])
               IN IF response.k = "json"
                  THEN ListLoop_uncaught(DictSet(cache, url, response.doc), i + 1, g,
                                         Append(agent_infos, response.doc), Append(fetches, url))
                  ELSE [cache |-> cache, ret |-> Raised("RequestException", <<"failed">>),
                        fetches |-> Append(fetches, url), posts |-> <<>>]

\* A loop that stops tracking a url whose fetch fails.
RECURSIVE ListLoop_forget(_, _, _, _, _)
ListLoop_forget(cache, i, g, agent_infos, fetches) ==
  IF i > Len(cache)
  THEN [cache |-> cache, ret |-> Returned("list", agent_infos),
        fetches |-> fetches, posts |-> <<>>]
  ELSE LET url == cache[i].url
           cached_info == cache[i].info
       IN IF cached_info # None
          THEN ListLoop_forget(cache, i + 1, g, Append(agent_infos, cached_info), fetches)
          ELSE LET response == GetOutcome(url, g[url])
               IN IF response.k = "json"
                  THEN ListLoop_forget(DictSet(cache, url, response.doc), i + 1, g,
                                       Append(agent_infos, response.doc), Append(fetches, url))
                  ELSE ListLoop_forget(DictDel(cache, url), i, g, agent_infos,
                                       Append(fetches, url))

\* The loop of A2AToolClient.list_remote_agents from entry i on; g gives the
\* outcome of the fetch of each url.  requests.get raises RequestException
\* for a connection failure, raise_for_status raises requests.HTTPError
\* (a RequestException), json() raises a JSONDecodeError: all three are
\* caught and the entry is skipped.
RECURSIVE ListLoop(_, _, _, _, _)
ListLoop(cache, i, g, agent_infos, fetches) ==
  IF i > Len(cache)
  THEN [cache |-> cache, ret |-> Returned("list", agent_infos),
        fetches |-> fetches, posts |-> <<>>]
  ELSE LET url == cache[i].url
           cached_info == cache[i].info
       IN IF cached_info # None
          THEN ListLoop(cache, i + 1, g, Append(agent_infos, cached_info), fetches)
          ELSE LET response == GetOutcome(url, g[url])
               IN IF response.k = "json"
                  THEN ListLoop(DictSet(cache, url, response.doc), i + 1, g,
                                Append(agent_infos, response.doc), Append(fetches, url))
                  ELSE ListLoop(cache, i + 1, g, agent_infos, Append(fetches, url))

\* A2AToolClient.list_remote_agents
list_remote_agents(cache, g) ==
  IF cache = <<>>
  THEN [cache |-> cache, ret |-> Returned("list", <<>>), fetches |-> <<>>, posts |-> <<>>]
  ELSE ListLoop(cache, 1, g, <<>>, <<>>)

\* The error strings of create_task.
ErrFetchingCard(url) ==
  <<"Error fetching agent card from ">> \o url \o <<": ", "All connection attempts failed">>
ErrParsingCard(url) ==
  <<"Error parsing agent card JSON from ">> \o url \o <<": ", "Expecting value">>
ErrCreatingCard(url, data) ==
  <<"Error creating AgentCard from fetched data for ">> \o url
     \o <<": ", "validation error", ". Data: ", data.k>>
ErrSending(url) ==
  <<"Error sending message to ">> \o url \o <<": ", "ReadTimeout">>

\* The parts of all artifacts in order; an artifact without parts adds none.
RECURSIVE AllParts(_)
AllParts(artifacts) ==
  IF artifacts = <<>> THEN <<>>
  ELSE (IF Head(artifacts).hasParts THEN Head(artifacts).parts ELSE <<>>)
       \o AllParts(Tail(artifacts))

\* json.dumps(response_dict, indent=2): the envelope's text as one document.
RECURSIVE PartsDump(_)
PartsDump(ps) ==
  IF ps = <<>> THEN <<>>
  ELSE (IF Head(ps).hasText THEN <<"\"text\": ">> \o Head(ps).text ELSE <<"\"data\"">>)
       \o PartsDump(Tail(ps))
JsonDump(env) ==
  IF env.hasArtifacts
  THEN <<"{\"result\": {\"artifacts\": [">> \o PartsDump(AllParts(env.artifacts)) \o <<"]}}">>
  ELSE <<"{\"result\": {}}">>

\* An extraction that returns the text of the last part with a text field.
ExtractText_last(env) ==
  LET ps == AllParts(env.artifacts)
      hits == {i \in 1..Len(ps) : ps[i].hasText}
  IN IF env.hasArtifacts /\ hits # {}
     THEN ps[CHOOSE i \in hits : \A j \in hits : i >= j].text
     ELSE JsonDump(env)

\* Extract text from response: the first part with a text field, else the
\* whole envelope as formatted JSON.
ExtractText(env) ==
  LET ps == AllParts(env.artifacts)
      hits == {i \in 1..Len(ps) : ps[i].hasText}
  IN IF env.hasArtifacts /\ hits # {}
     THEN ps[CHOOSE i \in hits : \A j \in hits : i <= j].text
     ELSE JsonDump(env)

\* A client built from the url create_task was called with.
SendTarget_base(agent_card, normalized_url) == normalized_url

\* A2AClient(httpx_client, agent_card).send_message(request): the client is
\* given the card and nothing else, so the request goes to the card's url.
SendTarget(agent_card, normalized_url) == agent_card.url

\* create_task sending the task whether or not the data makes an AgentCard.
CreateTaskWithCard_unvalidated(cache, normalized_url, agent_card_data, message, s, fetches) ==
  LET request == [to |-> SendTarget(agent_card_data, normalized_url), text |-> message]
  IN CASE s.k = "request_error" ->
            [cache |-> cache, ret |-> Returned("send_error", ErrSending(normalized_url)),
             fetches |-> fetches, posts |-> <<request>>]
       [] s.k = "client_error" ->
            [cache |-> cache, ret |-> Raised("A2AClientHTTPError", <<"HTTP Error 500">>),
             fetches |-> fetches, posts |-> <<request>>]
       [] OTHER ->
            [cache |-> cache, ret |-> Returned("text", ExtractText(s.env)),
             fetches |-> fetches, posts |-> <<request>>]

\* create_task from "Create AgentCard from data" on.
CreateTaskWithCard(cache, normalized_url, agent_card_data, message, s, fetches) ==
  IF agent_card_data.k # "card"
  THEN [cache |-> cache,
        ret |-> Returned("card_error", ErrCreatingCard(normalized_url, agent_card_data)),
        fetches |-> fetches, posts |-> <<>>]
  ELSE LET request == [to |-> SendTarget(agent_card_data, normalized_url), text |-> message]
       IN CASE s.k = "request_error" ->
                 [cache |-> cache, ret |-> Returned("send_error", ErrSending(normalized_url)),
                  fetches |-> fetches, posts |-> <<request>>]
            [] s.k = "client_error" ->
                 [cache |-> cache, ret |-> Raised("A2AClientHTTPError", <<"HTTP Error 500">>),
                  fetches |-> fetches, posts |-> <<request>>]
            [] OTHER ->
                 [cache |-> cache, ret |-> Returned("text", ExtractText(s.env)),
                  fetches |-> fetches, posts |-> <<request>>]

\* A create_task that never uses the cache and fetches on every call.
CardCached_never(cache, normalized_url) == FALSE

\* Whether create_task finds the agent card data in the cache.
CardCached(cache, normalized_url) ==
  DictHas(cache, normalized_url) /\ DictGet(cache, normalized_url) # None

\* create_task without the assignment that caches the fetched card.
create_task_uncached(cache, agent_url, message, g, s) ==
  LET normalized_url == rstrip(agent_url)
  IN IF CardCached(cache, normalized_url)
     THEN CreateTaskWithCard(cache, normalized_url, DictGet(cache, normalized_url),
                             message, s, <<>>)
     ELSE CASE g.k = "connect_error" ->
                 [cache |-> cache, ret |-> Returned("fetch_error", ErrFetchingCard(normalized_url)),
                  fetches |-> <<normalized_url>>, posts |-> <<>>]
            [] g.k = "http_error" ->
                 [cache |-> cache, ret |-> Raised("HTTPStatusError", <<"Server error '500'">>),
                  fetches |-> <<normalized_url>>, posts |-> <<>>]
            [] g.k = "not_json" ->
                 [cache |-> cache, ret |-> Returned("json_error", ErrParsingCard(normalized_url)),
                  fetches |-> <<normalized_url>>, posts |-> <<>>]
            [] OTHER ->
                 CreateTaskWithCard(cache, normalized_url, g.doc, message, s, <<normalized_url>>)

\* create_task from the return of the metadata fetch on: g is the outcome
\* of the fetch, cache the dictionary as it is when the coroutine resumes.
\* httpx raises RequestError for a connection failure or a timeout, and
\* raise_for_status raises HTTPStatusError, which is not a RequestError.
CreateTaskFetched(cache, normalized_url, message, g, s) ==
  CASE g.k = "connect_error" ->
         [cache |-> cache, ret |-> Returned("fetch_error", ErrFetchingCard(normalized_url)),
          fetches |-> <<normalized_url>>, posts |-> <<>>]
    [] g.k = "http_error" ->
         [cache |-> cache, ret |-> Raised("HTTPStatusError", <<"Server error '500'">>),
          fetches |-> <<normalized_url>>, posts |-> <<>>]
    [] g.k = "not_json" ->
         [cache |-> cache, ret |-> Returned("json_error", ErrParsingCard(normalized_url)),
          fetches |-> <<normalized_url>>, posts |-> <<>>]
    [] OTHER ->
         CreateTaskWithCard(DictSet(cache, normalized_url, g.doc), normalized_url,
                            g.doc, message, s, <<normalized_url>>)

\* A2AToolClient.create_task run without interruption; g is the outcome of
\* the metadata fetch (used only when the card is not cached), s the outcome
\* of send_message.
create_task(cache, agent_url, message, g, s) ==
  LET normalized_url == rstrip(agent_url)
  IN IF CardCached(cache, normalized_url)
     THEN CreateTaskWithCard(cache, normalized_url, DictGet(cache, normalized_url),
                             message, s, <<>>)
     ELSE CreateTaskFetched(cache, normalized_url, message, g, s)

\* The answers the metadata fetch of create_task may get: none when the
\* card is cached, since no fetch is made.
FetchChoices(cache, agent_url) ==
  IF CardCached(cache, rstrip(agent_url)) THEN {"none"} ELSE AnswerKinds

\* The outcomes send_message may have: none when create_task returns or
\* raises before it builds the request.
SendChoices(cache, agent_url, g) ==
  LET normalized_url == rstrip(agent_url)
      data == IF CardCached(cache, normalized_url)
              THEN DictGet(cache, normalized_url) ELSE g.doc
  IN IF (CardCached(cache, normalized_url) \/ g.k = "json") /\ data.k = "card"
     THEN SendOutcomes ELSE {NoSend}

\* The outcomes send_message may have in a stage of a pipeline run.
StageSendChoices(cache, agent_url, g) ==
  LET choices == SendChoices(cache, agent_url, g)
  IN IF choices = {NoSend} THEN choices
     ELSE choices \cup LongSendOutcomes \cup MarkedSendOutcomes

\* The outcomes the fetches of list_remote_agents may have, one for each
\* entry without metadata: which kind of answer each endpoint gives.
ListChoices(cache) ==
  [{u \in DictKeys(cache) : DictGet(cache, u) = None} -> AnswerKinds]

\* ------------------------------------------------- SimpleOrchestrator
Topics == {<<"AI trends in 2024">>}
Messages == {<<"hello">>}

\* SimpleOrchestrator.send_message_to_agent: r is what create_task handed
\* back; every exception becomes an {"error": ...} dictionary.
send_message_to_agent(r) ==
  IF r.kind = "ret"
  THEN [k |-> "content", text |-> r.val]
  ELSE [k |-> "error", text |-> <<"Failed to communicate with agent: ">> \o r.val]

\* SimpleOrchestrator.extract_text_from_response
extract_text_from_response(response) ==
  IF response.k = "error"
  THEN <<ErrorMarker>> \o response.text
  ELSE response.text

\* An orchestrator that never tests the text of a stage.
StageFailed_never(content) == FALSE

\* A test for the marker at the start of the text only.
StageFailed_prefix(content) == content # <<>> /\ content[1] = ErrorMarker

\* The test "Error:" in content that follows each stage.
StageFailed(content) == HasErrorMarker(content)

research_message(user_request) ==
  <<"Research the following topic thoroughly: ">> \o user_request

\* A processing request that embeds the research text whole.
data_message_whole(research_text) ==
  <<"Analyze and process this research data: ">> \o research_text \o <<"...">>

data_message(research_text) ==
  <<"Analyze and process this research data: ">>
    \o Take(research_text, ResearchCutoff) \o <<"...">>

\* A report request that embeds the processed text whole.
report_message_whole(research_text, data_text) ==
  <<"Create a comprehensive report based on the following information:",
    "RESEARCH FINDINGS:">>
    \o Take(research_text, ReportCutoff) \o <<"...", "DATA ANALYSIS:">>
    \o data_text
    \o <<"...", "Please create a well-structured report">>

report_message(research_text, data_text) ==
  <<"Create a comprehensive report based on the following information:",
    "RESEARCH FINDINGS:">>
    \o Take(research_text, ReportCutoff) \o <<"...", "DATA ANALYSIS:">>
    \o Take(data_text, ReportCutoff)
    \o <<"...", "Please create a well-structured report">>

SummaryHeader == "# Workflow Orchestration Complete ## Summary ## Final Report"
SummaryFooter == "--- *This report was generated through coordinated work*"

\* An orchestrator that returns the report text without the summary wrapper.
final_result_unwrapped(report_text) == report_text

\* An orchestrator that cuts the report text like the texts it forwards.
final_result_truncated(report_text) ==
  <<SummaryHeader>> \o Take(report_text, ReportCutoff) \o <<"...", SummaryFooter>>

final_result(report_text) == <<SummaryHeader>> \o report_text \o <<SummaryFooter>>

StageLabel ==
  [research_analyst |-> "Research failed: ",
   data_processor   |-> "Data processing failed: ",
   report_writer    |-> "Report generation failed: "]

\* A failure message that names the research stage whichever stage failed.
FailureMessage_research(stage, content) == <<StageLabel.research_analyst>> \o content

\* The text the run returns when the text of stage carries the marker.
FailureMessage(stage, content) == <<StageLabel[stage]>> \o content

\* The answers an endpoint may give to the probe of get_agent_status: no
\* connection, a status other than 200, a 200 whose body is not JSON, a 200
\* with the JSON body null, a 200 with the agent's card.
StatusAnswers == {"connect_error", "http_error", "not_json", "null", "card_own"}

\* The entry get_agent_status writes for an endpoint that answered in kind a.
\* requests.get raises for a failed connection, response.json() raises for a
\* body that is not JSON, and agent_data.get raises AttributeError when the
\* body is null: all three reach the except clause.
StatusEntry(a) ==
  CASE a = "http_error" -> <<"Not responding">>
    [] a = "connect_error" -> <<"Unreachable - ", "Connection refused">>
    [] a = "not_json" -> <<"Unreachable - ", "Expecting value">>
    [] a = "null" -> <<"Unreachable - ", "'NoneType' object has no attribute 'get'">>
    [] OTHER -> <<"Available - ", "name">>

\* The loop of get_agent_status without its try: the first probe that
\* raises ends the call with the exception.
RECURSIVE StatusLoop_uncaught(_, _, _)
StatusLoop_uncaught(i, g, status) ==
  IF i > Len(StageNames)
  THEN Returned("status", status)
  ELSE LET name == StageNames[i]
       IN IF g[name] \in {"connect_error", "not_json", "null"}
          THEN Raised("Exception", Tail(StatusEntry(g[name])))
          ELSE StatusLoop_uncaught(i + 1, g,
                 Append(status, [name |-> name, text |-> StatusEntry(g[name])]))

\* The loop of SimpleOrchestrator.get_agent_status over self.agents from
\* entry i on; g gives the answer of each endpoint.
RECURSIVE StatusLoop(_, _, _)
StatusLoop(i, g, status) ==
  IF i > Len(StageNames)
  THEN Returned("status", status)
  ELSE LET name == StageNames[i]
       IN StatusLoop(i + 1, g, Append(status, [name |-> name, text |-> StatusEntry(g[name])]))

\* SimpleOrchestrator.get_agent_status
get_agent_status(g) == StatusLoop(1, g, <<>>)

\* ------------------------------------------------------------- state
VARIABLES
  agent_info_cache,  \* A2AToolClient._agent_info_cache of the shared client
  op,                \* the operation the last step performed
  arg,               \* its url argument
  ret,               \* what the client call of the last step handed back
  wasTracked,        \* whether its url was tracked when the step began
  fetchLog,          \* the metadata fetches of the last step, in order
  posts,             \* the task requests the last step issued
  lastResponse,      \* what send_message handed back in the last step
  pc,                \* the state of the pipeline run
  request,           \* the message of the stage about to run
  runLog,            \* the stages the current run has completed
  result,            \* what orchestrate_workflow returned
  awaiting,          \* whether the run is suspended at the await of a stage
  inflight,          \* the task requests issued and not yet answered
  callLog,           \* the urls of the create_task calls of the current run
  uuids,             \* the number of uuid4() calls made so far
  requestLog,        \* the identifiers of the task requests built so far
  user_request,      \* the topic the current run was called with
  other,             \* the second run on the same orchestrator, while the
                     \* first one holds the event loop
  calls,             \* the create_task coroutines on the event loop
  removed,           \* the urls removed, with no call for them started since
  listing,           \* the list_remote_agents call of the listing thread
  gen                \* the generator LangGraphDataProcessor.stream returned

vars ==
  <<agent_info_cache, op, arg, wasTracked, ret, fetchLog, posts, lastResponse,
    pc, request, runLog, result, awaiting, inflight, callLog, uuids, requestLog,
    user_request, other, calls, removed, listing, gen>>

\* The identifiers of the task requests are followed in SpecIds; elsewhere
\* a request stands for its destination and text.
idVars == <<uuids, requestLog>>

orchVars == <<pc, request, runLog, result, awaiting, inflight, callLog, user_request>>

\* The state of concurrent use: a second run, create_task coroutines that
\* interleave, a listing on a thread of its own.
raceVars == <<other, calls, removed, listing>>

\* A create_task coroutine slot not yet used.
IdleCall ==
  [pc |-> "idle", url |-> <<>>, message |-> <<>>, card |-> None, ret |-> NoCall]

CallIds == 1..MaxCalls

\* No list_remote_agents call on the listing thread.
IdleListing ==
  [pc |-> "idle", size |-> 0, left |-> 0, visited |-> {}, url |-> <<>>,
   infos |-> <<>>, from |-> <<>>, tracked |-> {}, ret |-> NoCall]

\* An orchestrate_workflow coroutine not yet called.
IdleRun ==
  [pc |-> "INIT", user_request |-> <<>>, request |-> <<>>, runLog |-> <<>>,
   result |-> NoCall, awaiting |-> FALSE, inflight |-> <<>>, callLog |-> <<>>]

\* ------------------------------------------- LangGraphDataProcessor
\* The last message of an item of self.graph.stream(..., stream_mode='values'):
\* the user's message, an AIMessage with tool calls, an AIMessage without,
\* a ToolMessage.
MessageKinds == {"HumanMessage", "AIMessage_tool_calls", "AIMessage", "ToolMessage"}

\* current_state.values.get('structured_response'): absent, an object that
\* is not a ResponseFormat, or a ResponseFormat with one of its statuses.
StructuredResponses == {"None", "other", "input_required", "error", "completed"}

ProcessingText == <<"Processing data with advanced analysis tools...">>
AnalyzingText == <<"Analyzing data patterns and extracting insights...">>
UnableText == <<"We are unable to process your request at the moment. ", "Please try again.">>

\* The dictionaries stream yields.
Update(complete, input, content) ==
  [is_task_complete |-> complete, require_user_input |-> input, content |-> content]

\* What the body of the loop of stream yields for an item: nothing for a
\* message that is neither an AIMessage with tool calls nor a ToolMessage.
StreamItemYield(message) ==
  IF message = "AIMessage_tool_calls"
  THEN <<Update(FALSE, FALSE, ProcessingText)>>
  ELSE IF message = "ToolMessage"
  THEN <<Update(FALSE, FALSE, AnalyzingText)>>
  ELSE <<>>

\* A final response that asks nothing of the user when the status is error.
get_agent_response_silent(structured_response) ==
  CASE structured_response = "input_required" ->
         Update(FALSE, TRUE, <<"structured_response.message">>)
    [] structured_response = "error" ->
         Update(FALSE, FALSE, <<"structured_response.message">>)
    [] structured_response = "completed" ->
         Update(TRUE, FALSE, <<"structured_response.message">>)
    [] OTHER -> Update(FALSE, TRUE, UnableText)

\* LangGraphDataProcessor.get_agent_response
get_agent_response(structured_response) ==
  CASE structured_response = "input_required" ->
         Update(FALSE, TRUE, <<"structured_response.message">>)
    [] structured_response = "error" ->
         Update(FALSE, TRUE, <<"structured_response.message">>)
    [] structured_response = "completed" ->
         Update(TRUE, FALSE, <<"structured_response.message">>)
    [] OTHER -> Update(FALSE, TRUE, UnableText)

\* No stream called yet.
IdleGen ==
  [pc |-> "idle", input |-> <<>>, items |-> <<>>, raises |-> FALSE,
   structured_response |-> "None", out |-> <<>>]

\* The state of everything but the cache before the first call.
InitRest ==
  /\ op = "init"
  /\ arg = <<>>
  /\ wasTracked = FALSE
  /\ ret = NoCall
  /\ fetchLog = <<>>
  /\ posts = <<>>
  /\ lastResponse = NoSend
  /\ pc = "INIT"
  /\ request = <<>>
  /\ runLog = <<>>
  /\ result = NoCall
  /\ awaiting = FALSE
  /\ inflight = <<>>
  /\ callLog = <<>>
  /\ uuids = 0
  /\ requestLog = <<>>
  /\ user_request = <<>>
  /\ other = IdleRun
  /\ calls = [c \in CallIds |-> IdleCall]
  /\ removed = {}
  /\ listing = IdleListing
  /\ gen = IdleGen

\* A2AToolClient.__init__: nothing is tracked.
Init ==
  /\ agent_info_cache = <<>>
  /\ InitRest

\* SimpleOrchestrator.__init__: a new client, with the three agents registered.
InitOrchestrator ==
  /\ agent_info_cache =
       add_remote_agent(add_remote_agent(add_remote_agent(<<>>,
         agents.research_analyst), agents.data_processor), agents.report_writer)
  /\ InitRest

\* The fetches of one call, each with the outcome the endpoint gave it.
FetchRecords(fetches, g) == [i \in 1..Len(fetches) |-> [url |-> fetches[i], a |-> g[fetches[i]]]]

\* add_remote_agent called on the client.
RegisterCall(agent_url) ==
  /\ agent_info_cache' = add_remote_agent(agent_info_cache, agent_url)
  /\ Len(agent_info_cache') <= MaxTracked
  /\ op' = "Register"
  /\ arg' = agent_url
  /\ wasTracked' = DictHas(agent_info_cache, rstrip(agent_url))
  /\ ret' = Returned("none", <<>>)
  /\ fetchLog' = <<>>
  /\ posts' = <<>>
  /\ lastResponse' = NoSend
  /\ UNCHANGED orchVars
  /\ UNCHANGED <<idVars, gen>>

\* Register(url)
Register(agent_url) ==
  /\ RegisterCall(agent_url)
  /\ UNCHANGED raceVars

\* remove_remote_agent called on the client.
DeregisterCall(agent_url) ==
  /\ agent_info_cache' = remove_remote_agent(agent_info_cache, agent_url)
  /\ op' = "Deregister"
  /\ arg' = agent_url
  /\ wasTracked' = DictHas(agent_info_cache, rstrip(agent_url))
  /\ ret' = Returned("none", <<>>)
  /\ fetchLog' = <<>>
  /\ posts' = <<>>
  /\ lastResponse' = NoSend
  /\ UNCHANGED orchVars
  /\ UNCHANGED <<idVars, gen>>

\* Deregister(url)
Deregister(agent_url) ==
  /\ DeregisterCall(agent_url)
  /\ UNCHANGED raceVars

\* ListKnown()
ListKnown ==
  \E g \in ListChoices(agent_info_cache) :
  \E r \in {list_remote_agents(agent_info_cache, g)} :
       /\ agent_info_cache' = r.cache
       /\ op' = "ListKnown"
       /\ arg' = <<>>
       /\ wasTracked' = FALSE
       /\ ret' = r.ret
       /\ fetchLog' = FetchRecords(r.fetches, g)
       /\ posts' = r.posts
       /\ lastResponse' = NoSend
       /\ UNCHANGED orchVars
       /\ UNCHANGED raceVars
       /\ UNCHANGED <<idVars, gen>>

\* A create_task call on the client, but for the identifiers of its request.
SendTaskCall(agent_url, message) ==
  \E a \in FetchChoices(agent_info_cache, agent_url) :
  \E s \in SendChoices(agent_info_cache, agent_url, GetOutcome(rstrip(agent_url), a)) :
  \E r \in {create_task(agent_info_cache, agent_url, message,
                         GetOutcome(rstrip(agent_url), a), s)} :
       /\ agent_info_cache' = r.cache
       /\ Len(r.cache) <= MaxTracked
       /\ op' = "SendTask"
       /\ arg' = agent_url
       /\ wasTracked' = DictHas(agent_info_cache, rstrip(agent_url))
       /\ ret' = r.ret
       /\ fetchLog' = [i \in 1..Len(r.fetches) |-> [url |-> r.fetches[i], a |-> a]]
       /\ posts' = r.posts
       /\ lastResponse' = s
       /\ UNCHANGED orchVars
       /\ UNCHANGED raceVars

\* SendTask(url, message), called on the client directly.
SendTask(agent_url, message) ==
  /\ SendTaskCall(agent_url, message)
  /\ UNCHANGED <<idVars, gen>>

\* uuid.uuid4(): the value of call number n + 1 of a source of values that
\* never gives the same value twice.
uuid4(n) == n + 1

\* UUID.hex and str(UUID): two spellings of the value.
hex(u) == [form |-> "hex", uuid |-> u]
str(u) == [form |-> "str", uuid |-> u]

\* A client that draws the identifiers once and uses them for every request.
RequestIds_once(n) == [messageId |-> hex(uuid4(0)), id |-> str(uuid4(1))]

\* The identifiers of a request built after n uuid4() calls: messageId is
\* uuid.uuid4().hex, the request id is str(uuid.uuid4()).
RequestIds(n) == [messageId |-> hex(uuid4(n)), id |-> str(uuid4(n + 1))]

\* SendTask(url, message) with the identifiers of the request it builds:
\* when the call gets as far as the request, messageId is the hex of one
\* uuid4() and the request id the str of another.
SendTaskIds(agent_url, message) ==
  /\ SendTaskCall(agent_url, message)
  /\ IF posts' # <<>>
     THEN /\ Len(requestLog) < MaxRequests
          /\ uuids' = uuids + 2
          /\ requestLog' = Append(requestLog, RequestIds(uuids))
     ELSE UNCHANGED idVars
  /\ UNCHANGED gen

\* orchestrate_workflow is called: the research message is built.
StartRun(topic) ==
  /\ pc \in {"INIT", "DONE", "FAILED"}
  /\ pc' = "RESEARCHING"
  /\ user_request' = topic
  /\ request' = research_message(topic)
  /\ runLog' = <<>>
  /\ result' = NoCall
  /\ callLog' = <<>>
  /\ UNCHANGED <<awaiting, inflight>>
  /\ UNCHANGED <<idVars, gen>>
  /\ UNCHANGED raceVars
  /\ op' = "StartRun"
  /\ arg' = <<>>
  /\ wasTracked' = FALSE
  /\ ret' = NoCall
  /\ fetchLog' = <<>>
  /\ posts' = <<>>
  /\ lastResponse' = NoSend
  /\ UNCHANGED agent_info_cache

StageState ==
  [research_analyst |-> "RESEARCHING",
   data_processor   |-> "PROCESSING",
   report_writer    |-> "REPORTING"]

\* The message of the stage after stage, given the run's texts so far:
\* log[1].content is research_content, log[2].content is data_content.
NextRequest(stage, log) ==
  IF stage = "research_analyst" THEN data_message(log[1].content)
  ELSE report_message(log[1].content, log[2].content)

\* An orchestrator that sends the request of a failed stage again instead of
\* returning.
CompleteStage_retry(stage, r) ==
  LET response == send_message_to_agent(r)
      content == extract_text_from_response(response)
      log == Append(runLog, [stage |-> stage, content |-> content, why |-> r.why])
  IN IF StageFailed(content)
     THEN UNCHANGED <<pc, request, runLog, result>>
     ELSE /\ runLog' = log
          /\ IF stage = "report_writer"
             THEN /\ pc' = "DONE"
                  /\ request' = <<>>
                  /\ result' = Returned("done", final_result(content))
             ELSE /\ pc' = (IF stage = "research_analyst" THEN "PROCESSING" ELSE "REPORTING")
                  /\ request' = NextRequest(stage, log)
                  /\ result' = NoCall

\* The rest of a stage once create_task has handed back r: the text is
\* extracted and tested, and the next stage is prepared or the run returns.
CompleteStage(stage, r) ==
  LET response == send_message_to_agent(r)
      content == extract_text_from_response(response)
      log == Append(runLog, [stage |-> stage, content |-> content, why |-> r.why])
  IN /\ runLog' = log
     /\ IF StageFailed(content)
        THEN /\ pc' = "FAILED"
             /\ request' = <<>>
             /\ result' = Returned("failed", FailureMessage(stage, content))
        ELSE IF stage = "report_writer"
        THEN /\ pc' = "DONE"
             /\ request' = <<>>
             /\ result' = Returned("done", final_result(content))
        ELSE /\ pc' = (IF stage = "research_analyst" THEN "PROCESSING" ELSE "REPORTING")
             /\ request' = NextRequest(stage, log)
             /\ result' = NoCall

\* An orchestrator that does not wait at the await of a stage.
Suspended_never(aw) == FALSE

\* Whether orchestrate_workflow is suspended at an await.
Suspended(aw) == aw

\* A stage of orchestrate_workflow up to the await of send_message:
\* create_task is called, fetches and caches the card when it is not cached
\* and issues the task request.  When create_task returns or raises before
\* it sends (r.posts is empty), the stage completes in the same step.  The
\* cache, the fetches and the request do not depend on the response.
IssueStage(stage) ==
  /\ pc = StageState[stage]
  /\ ~Suspended(awaiting)
  /\ callLog' = Append(callLog, agents[stage])
  /\ UNCHANGED <<idVars, gen, raceVars, user_request>>
  /\ \E a \in FetchChoices(agent_info_cache, agents[stage]) :
     \E r \in {create_task(agent_info_cache, agents[stage], request,
                            GetOutcome(rstrip(agents[stage]), a), NoSend)} :
          /\ agent_info_cache' = r.cache
          /\ arg' = agents[stage]
          /\ wasTracked' = DictHas(agent_info_cache, rstrip(agents[stage]))
          /\ fetchLog' = [i \in 1..Len(r.fetches) |-> [url |-> r.fetches[i], a |-> a]]
          /\ posts' = r.posts
          /\ lastResponse' = NoSend
          /\ IF r.posts = <<>>
             THEN /\ op' = "SendTask"
                  /\ ret' = r.ret
                  /\ UNCHANGED <<awaiting, inflight>>
                  /\ CompleteStage(stage, r.ret)
             ELSE /\ op' = "IssueTask"
                  /\ ret' = NoCall
                  /\ awaiting' = TRUE
                  /\ inflight' = inflight \o r.posts
                  /\ UNCHANGED <<pc, request, runLog, result>>

\* The response to the task request of a stage arrives: create_task resumes
\* with the card it holds, and the stage completes.
ReceiveStage(stage) ==
  /\ pc = StageState[stage]
  /\ awaiting
  /\ inflight # <<>>
  /\ UNCHANGED <<idVars, gen, raceVars, user_request>>
  /\ \E s \in StageSendChoices(agent_info_cache, agents[stage], GetOutcome(rstrip(agents[stage]), "none")) :
     \E r \in {CreateTaskWithCard(agent_info_cache, rstrip(agents[stage]),
                                   DictGet(agent_info_cache, rstrip(agents[stage])),
                                   request, s, <<>>)} :
          /\ op' = "SendTask"
          /\ ret' = r.ret
          /\ lastResponse' = s
          /\ awaiting' = FALSE
          /\ inflight' = Tail(inflight)
          /\ UNCHANGED <<agent_info_cache, arg, wasTracked, fetchLog, posts, callLog>>
          /\ CompleteStage(stage, r.ret)

\* One stage of orchestrate_workflow.
Stage(stage) == IssueStage(stage) \/ ReceiveStage(stage)

Research == Stage("research_analyst")
Processing == Stage("data_processor")
Reporting == Stage("report_writer")

\* A client that holds the card of the research agent.
InitExchange ==
  /\ agent_info_cache =
       DictSet(<<>>, agents.research_analyst,
               GetOutcome(agents.research_analyst, "card_own").doc)
  /\ InitRest

\* The one create_task call made on that client, answered with a response
\* of any shape.
Exchange(agent_url, message) ==
  /\ op = "init"
  /\ \E s \in {[k |-> "response", env |-> e] : e \in RichEnvelopes} :
     \E r \in {create_task(agent_info_cache, agent_url, message,
                            GetOutcome(rstrip(agent_url), "none"), s)} :
       /\ agent_info_cache' = r.cache
       /\ op' = "SendTask"
       /\ arg' = agent_url
       /\ wasTracked' = DictHas(agent_info_cache, rstrip(agent_url))
       /\ ret' = r.ret
       /\ fetchLog' = <<>>
       /\ posts' = r.posts
       /\ lastResponse' = s
       /\ UNCHANGED orchVars
       /\ UNCHANGED raceVars
       /\ UNCHANGED <<idVars, gen>>

\* StatusCheck(): get_agent_status probes the three endpoints itself.
StatusCheck ==
  \E g \in [{StageNames[i] : i \in 1..Len(StageNames)} -> StatusAnswers] :
       /\ op' = "StatusCheck"
       /\ arg' = <<>>
       /\ wasTracked' = FALSE
       /\ ret' = get_agent_status(g)
       /\ fetchLog' = [i \in 1..Len(StageNames) |->
                         [url |-> agents[StageNames[i]], a |-> g[StageNames[i]]]]
       /\ posts' = <<>>
       /\ lastResponse' = NoSend
       /\ UNCHANGED agent_info_cache
       /\ UNCHANGED orchVars
       /\ UNCHANGED raceVars
       /\ UNCHANGED <<idVars, gen>>

\* A create_task coroutine is called and runs to its first await: the test
\* of the cache, then the metadata fetch when the card is not cached, or the
\* validation of the cached data and the task request.
CallStart(c, agent_url, message) ==
  /\ calls[c].pc = "idle"
  /\ \A d \in CallIds : d < c => calls[d].pc # "idle"
  /\ LET normalized_url == rstrip(agent_url)
         call == [IdleCall EXCEPT !.url = normalized_url, !.message = message]
     IN /\ IF CardCached(agent_info_cache, normalized_url)
           THEN \E r \in {CreateTaskWithCard(agent_info_cache, normalized_url,
                                               DictGet(agent_info_cache, normalized_url),
                                               message, NoSend, <<>>)} :
                  /\ posts' = r.posts
                  /\ calls' = [calls EXCEPT ![c] =
                       IF r.posts = <<>>
                       THEN [call EXCEPT !.pc = "done", !.ret = r.ret]
                       ELSE [call EXCEPT !.pc = "sending",
                                         !.card = DictGet(agent_info_cache, normalized_url)]]
           ELSE /\ posts' = <<>>
                /\ calls' = [calls EXCEPT ![c] = [call EXCEPT !.pc = "fetching"]]
        /\ removed' = removed \ {normalized_url}
        /\ wasTracked' = DictHas(agent_info_cache, normalized_url)
  /\ op' = "CallStart"
  /\ arg' = agent_url
  /\ ret' = calls'[c].ret
  /\ fetchLog' = <<>>
  /\ lastResponse' = NoSend
  /\ UNCHANGED <<agent_info_cache, orchVars, idVars, gen, other, listing>>

\* The metadata fetch of coroutine c returns and the coroutine resumes: it
\* stores the document, validates it and issues the task request, or returns
\* or raises.  It does not test the cache again.
FetchDone(c) ==
  /\ calls[c].pc = "fetching"
  /\ \E a \in AnswerKinds :
     \E r \in {CreateTaskFetched(agent_info_cache, calls[c].url, calls[c].message,
                                  GetOutcome(calls[c].url, a), NoSend)} :
       /\ agent_info_cache' = r.cache
       /\ Len(r.cache) <= MaxTracked
       /\ calls' = [calls EXCEPT ![c] =
            IF r.posts = <<>>
            THEN [@ EXCEPT !.pc = "done", !.ret = r.ret]
            ELSE [@ EXCEPT !.pc = "sending", !.card = GetOutcome(calls[c].url, a).doc]]
       /\ fetchLog' = <<[url |-> calls[c].url, a |-> a]>>
       /\ posts' = r.posts
  /\ op' = "FetchDone"
  /\ arg' = calls[c].url
  /\ wasTracked' = DictHas(agent_info_cache, calls[c].url)
  /\ ret' = calls'[c].ret
  /\ lastResponse' = NoSend
  /\ UNCHANGED <<orchVars, idVars, gen, other, removed, listing>>

\* The task request of coroutine c is answered and the coroutine returns; it
\* works with the card it built before the await.
SendDone(c) ==
  /\ calls[c].pc = "sending"
  /\ \E s \in SendOutcomes :
     \E r \in {CreateTaskWithCard(agent_info_cache, calls[c].url, calls[c].card,
                                   calls[c].message, s, <<>>)} :
       /\ calls' = [calls EXCEPT ![c] = [@ EXCEPT !.pc = "done", !.ret = r.ret]]
       /\ ret' = r.ret
       /\ lastResponse' = s
  /\ op' = "SendDone"
  /\ arg' = calls[c].url
  /\ wasTracked' = DictHas(agent_info_cache, calls[c].url)
  /\ fetchLog' = <<>>
  /\ posts' = <<>>
  /\ UNCHANGED <<agent_info_cache, orchVars, idVars, gen, other, removed, listing>>

\* add_remote_agent and remove_remote_agent called between the steps of the
\* coroutines; they have no await and run without interruption.
AsyncRegister(agent_url) ==
  /\ RegisterCall(agent_url)
  /\ removed' = removed \ {rstrip(agent_url)}
  /\ UNCHANGED <<other, calls, listing>>

AsyncDeregister(agent_url) ==
  /\ DeregisterCall(agent_url)
  /\ removed' = removed \cup {rstrip(agent_url)}
  /\ UNCHANGED <<other, calls, listing>>

\* What the steps of the listing thread leave alone.
ListingFrame ==
  /\ arg' = <<>>
  /\ wasTracked' = FALSE
  /\ ret' = NoCall
  /\ posts' = <<>>
  /\ lastResponse' = NoSend
  /\ UNCHANGED <<orchVars, idVars, gen, other, calls, removed>>

\* list_remote_agents is called on the listing thread: it returns [] when
\* nothing is tracked, and otherwise makes the iterator of the for statement
\* over self._agent_info_cache.items(), which notes the size of the dict.
ListStart ==
  /\ listing.pc = "idle"
  /\ listing' =
       IF agent_info_cache = <<>>
       THEN [IdleListing EXCEPT !.pc = "done", !.ret = Returned("list", <<>>)]
       ELSE [IdleListing EXCEPT !.pc = "iter",
                                !.size = Len(agent_info_cache),
                                !.left = Len(agent_info_cache),
                                !.tracked = DictKeys(agent_info_cache)]
  /\ op' = "ListStart"
  /\ fetchLog' = <<>>
  /\ UNCHANGED agent_info_cache
  /\ ListingFrame

\* The entries the iterator has not passed: new entries go to the end of a
\* dict, and an entry it has passed is in visited until it is deleted.
Unvisited(cache, visited) == SelectSeq(cache, LAMBDA e : e.url \notin visited)

\* The for statement asks the iterator for the next entry.  The iterator
\* raises RuntimeError when the size of the dict is not the size it noted,
\* and when it finds an entry after it has given as many as it noted; at the
\* end of the entries the loop ends and the list is returned.  For an entry
\* with metadata the body appends it; for one without, it calls requests.get
\* and the thread waits for the answer.
ListNext ==
  /\ listing.pc = "iter"
  /\ LET rest == Unvisited(agent_info_cache, listing.visited)
         seen == [listing EXCEPT !.tracked = @ \cup DictKeys(agent_info_cache)]
     IN listing' =
          IF Len(agent_info_cache) # listing.size
          THEN [seen EXCEPT !.pc = "done",
                 !.ret = Raised("RuntimeError", <<"dictionary changed size during iteration">>)]
          ELSE IF rest = <<>>
          THEN [seen EXCEPT !.pc = "done", !.ret = Returned("list", listing.infos)]
          ELSE IF listing.left = 0
          THEN [seen EXCEPT !.pc = "done",
                 !.ret = Raised("RuntimeError", <<"dictionary keys changed during iteration">>)]
          ELSE IF rest[1].info # None
          THEN [seen EXCEPT !.left = @ - 1,
                            !.visited = @ \cup {rest[1].url},
                            !.infos = Append(@, rest[1].info),
                            !.from = Append(@, rest[1].url)]
          ELSE [seen EXCEPT !.pc = "get",
                            !.left = @ - 1,
                            !.visited = @ \cup {rest[1].url},
                            !.url = rest[1].url]
  /\ op' = "ListNext"
  /\ fetchLog' = <<>>
  /\ UNCHANGED agent_info_cache
  /\ ListingFrame

\* requests.get returns on the listing thread: a JSON document is stored
\* under the url of the entry, whether the url is still tracked or not, and
\* appended; a failure is printed and the entry skipped.
ListFetched ==
  /\ listing.pc = "get"
  /\ \E a \in AnswerKinds :
     \E response \in {GetOutcome(listing.url, a)} :
       /\ fetchLog' = <<[url |-> listing.url, a |-> a]>>
       /\ IF response.k = "json"
          THEN /\ agent_info_cache' = DictSet(agent_info_cache, listing.url, response.doc)
               /\ listing' = [listing EXCEPT !.pc = "iter",
                                 !.infos = Append(@, response.doc),
                                 !.from = Append(@, listing.url),
                                 !.tracked = @ \cup DictKeys(agent_info_cache)]
          ELSE /\ UNCHANGED agent_info_cache
               /\ listing' = [listing EXCEPT !.pc = "iter",
                                 !.tracked = @ \cup DictKeys(agent_info_cache)]
  /\ Len(agent_info_cache') <= MaxTracked
  /\ op' = "ListFetched"
  /\ ListingFrame

\* remove_remote_agent on another thread: the iterator of a listing under
\* way no longer passes the entry, and an entry stored under the same url
\* later is a new one at the end of the dict.
ThreadDeregister(agent_url) ==
  /\ DeregisterCall(agent_url)
  /\ listing' = [listing EXCEPT !.visited = @ \ {rstrip(agent_url)}]
  /\ UNCHANGED <<other, calls, removed>>

\* The coroutine of the run that holds the event loop: the parameter and the
\* local variables of orchestrate_workflow, and where it stands.
RunState ==
  [pc |-> pc, user_request |-> user_request, request |-> request,
   runLog |-> runLog, result |-> result, awaiting |-> awaiting,
   inflight |-> inflight, callLog |-> callLog]

\* An orchestrator that keeps the texts of the stages in attributes of the
\* shared instance: the run that resumes finds the texts of the other one.
Switch_shared ==
  /\ awaiting \/ pc \in {"INIT", "DONE", "FAILED"}
  /\ other' = RunState
  /\ pc' = other.pc
  /\ user_request' = other.user_request
  /\ request' = other.request
  /\ result' = other.result
  /\ awaiting' = other.awaiting
  /\ inflight' = other.inflight
  /\ callLog' = other.callLog
  /\ op' = "Switch"
  /\ arg' = <<>>
  /\ wasTracked' = FALSE
  /\ ret' = NoCall
  /\ fetchLog' = <<>>
  /\ posts' = <<>>
  /\ lastResponse' = NoSend
  /\ UNCHANGED <<agent_info_cache, runLog, idVars, gen, calls, removed, listing>>

\* The event loop passes from one orchestrate_workflow coroutine to the
\* other.  A coroutine gives up the loop only at an await or when it has
\* returned; its parameter and local variables are its own and stay as they
\* are until it resumes.  The client and its cache are shared.
Switch ==
  /\ awaiting \/ pc \in {"INIT", "DONE", "FAILED"}
  /\ other' = RunState
  /\ pc' = other.pc
  /\ user_request' = other.user_request
  /\ request' = other.request
  /\ runLog' = other.runLog
  /\ result' = other.result
  /\ awaiting' = other.awaiting
  /\ inflight' = other.inflight
  /\ callLog' = other.callLog
  /\ op' = "Switch"
  /\ arg' = <<>>
  /\ wasTracked' = FALSE
  /\ ret' = NoCall
  /\ fetchLog' = <<>>
  /\ posts' = <<>>
  /\ lastResponse' = NoSend
  /\ UNCHANGED <<agent_info_cache, idVars, gen, calls, removed, listing>>

\* What the steps of the generator leave alone.
StreamFrame ==
  UNCHANGED <<agent_info_cache, op, arg, wasTracked, ret, fetchLog, posts,
              lastResponse, orchVars, idVars, raceVars>>

\* stream(query, context_id) is called: the graph will give the messages of
\* items one by one, raise after them or end, and leave structured_response
\* in its state.
StreamStart(items, raises, structured_response) ==
  /\ gen.pc = "idle"
  /\ gen' = [IdleGen EXCEPT !.pc = "streaming", !.input = items, !.items = items,
                            !.raises = raises,
                            !.structured_response = structured_response]
  /\ StreamFrame

\* One turn of the loop over self.graph.stream(...).
StreamItem ==
  /\ gen.pc = "streaming"
  /\ gen.items # <<>>
  /\ gen' = [gen EXCEPT !.items = Tail(@),
                        !.out = @ \o StreamItemYield(Head(gen.items))]
  /\ StreamFrame

\* The loop ends: an exception of the graph leaves the generator; otherwise
\* the generator yields get_agent_response(config) and is exhausted.
StreamEnd ==
  /\ gen.pc = "streaming"
  /\ gen.items = <<>>
  /\ gen' = IF gen.raises
            THEN [gen EXCEPT !.pc = "raised"]
            ELSE [gen EXCEPT !.pc = "done",
                             !.out = Append(@, get_agent_response(gen.structured_response))]
  /\ StreamFrame

\* The directory client used on its own.
Next ==
  \/ \E u \in URLArgs : Register(u)
  \/ \E u \in URLArgs : Deregister(u)
  \/ ListKnown
  \/ \E u \in URLArgs, m \in Messages : SendTask(u, m)

Spec == Init /\ [][Next]_vars

\* One exchange with an agent whose card is held, over every response.
NextExchange ==
  \E m \in Messages : Exchange(agents.research_analyst, m)

SpecExchange == InitExchange /\ [][NextExchange]_vars

\* The spellings of the url of the research agent.
ResearchURLArgs == {u \in URLArgs : rstrip(u) = agents.research_analyst}

\* create_task calls to one agent on a new client, with their identifiers.
NextIds ==
  \E u \in ResearchURLArgs, m \in Messages : SendTaskIds(u, m)

SpecIds == Init /\ [][NextIds]_vars

\* create_task coroutines for one agent that interleave at their awaits on
\* one event loop and one client, with the agent registered and removed in
\* between.
NextAsync ==
  \/ \E c \in CallIds, u \in ResearchURLArgs, m \in Messages : CallStart(c, u, m)
  \/ \E c \in CallIds : FetchDone(c)
  \/ \E c \in CallIds : SendDone(c)
  \/ \E u \in ResearchURLArgs : AsyncRegister(u)
  \/ \E u \in ResearchURLArgs : AsyncDeregister(u)

SpecAsync == Init /\ [][NextAsync]_vars

\* The urls the second thread works with.
ThreadURLs == {agents.research_analyst, agents.data_processor}

\* One list_remote_agents call on one thread, while a second thread calls
\* add_remote_agent, remove_remote_agent and create_task on the same client.
NextThreads ==
  \/ ListStart
  \/ ListNext
  \/ ListFetched
  \/ \E u \in ThreadURLs : Register(u)
  \/ \E u \in ThreadURLs : ThreadDeregister(u)
  \/ \E m \in Messages : SendTask(agents.research_analyst, m)

SpecThreads == Init /\ [][NextThreads]_vars

\* One stream of the data processor, over every sequence of messages of the
\* graph and every structured response.
NextStream ==
  \/ \E items \in SeqsUpTo(MessageKinds, MaxItems), raises \in BOOLEAN,
        structured_response \in StructuredResponses :
          StreamStart(items, raises, structured_response)
  \/ StreamItem
  \/ StreamEnd

SpecStream == Init /\ [][NextStream]_vars

\* The diagnostics of the orchestrator: get_agent_status, and
\* list_available_agents, which lists through the client.
NextStatus ==
  \/ StatusCheck
  \/ ListKnown

SpecStatus == InitOrchestrator /\ [][NextStatus]_vars

\* Pipeline runs of the orchestrator, one after the other, over its client.
NextPipeline ==
  \/ \E t \in Topics : StartRun(t)
  \/ Research
  \/ Processing
  \/ Reporting

SpecPipeline == InitOrchestrator /\ [][NextPipeline]_vars

\* The pipeline when the event loop resumes the coroutine of a run whenever it
\* can continue and every outbound call completes or times out: a stage that
\* can take a step, by issuing its call or by receiving the outcome of the
\* call it awaits, takes it.
SpecPipelineFair ==
  /\ InitOrchestrator
  /\ [][NextPipeline]_vars
  /\ WF_vars(Research)
  /\ WF_vars(Processing)
  /\ WF_vars(Reporting)

\* The topics of two runs that interleave.
RunTopics == {<<"AI trends in 2024">>, <<"Quantum computing">>}

\* What the endpoints answer in SpecTwoRuns: the metadata fetch gets the
\* agent's card, and a task is answered with a text, a marked text, or a
\* response without text, which create_task returns as its dump.
TwoRunsAnswers ==
  /\ \A i \in 1..Len(fetchLog) : fetchLog[i].a = "card_own"
  /\ lastResponse \in
       {NoSend, [k |-> "response", env |-> Envelope(<<Artifact(<<DataPart>>)>>)]}
       \cup {[k |-> "response", env |-> Envelope(<<Artifact(<<TextPart(t)>>)>>)] :
               t \in AgentTexts}

\* Two orchestrate_workflow coroutines on the module-level orchestrator and
\* its one client, interleaved at their awaits.
NextTwoRuns ==
  \/ \E t \in RunTopics : StartRun(t) /\ TwoRunsAnswers'
  \/ Research /\ TwoRunsAnswers'
  \/ Processing /\ TwoRunsAnswers'
  \/ Reporting /\ TwoRunsAnswers'
  \/ Switch /\ TwoRunsAnswers'

SpecTwoRuns == InitOrchestrator /\ [][NextTwoRuns]_vars

\* ================================================================ claims

\* The urls whose metadata is populated in cache.
Populated(cache) == {u \in DictKeys(cache) : DictGet(cache, u) # None}

\* The fetches of a fetch log that failed: no JSON document was obtained.
FailedFetches(log) == {i \in 1..Len(log) : log[i].a \notin JsonAnswers}

\* C1: SendTask never raises: whatever the failure of the exchange, the call
\* returns a string and no exception reaches the caller.
C1_SendTaskNeverRaises ==
  op = "SendTask" => ret.kind = "ret"

\* C2: when a stage's SendTask returns an error description because the
\* endpoint is unreachable or its metadata cannot be fetched, the run ends in
\* FAILED with a message naming that stage and no later stage is invoked.
C2_ClientErrorFailsRun ==
  \A i \in 1..Len(runLog) :
    runLog[i].why \in {"fetch_error", "json_error"}
      => /\ i = Len(runLog)
         /\ pc = "FAILED"
         /\ result.kind = "ret"
         /\ result.val[1] = StageLabel[runLog[i].stage]

\* C3: once the text of stage k carries the error marker, the run is FAILED
\* and no stage after k is invoked; in particular a marked processing text
\* means the report endpoint is never called.  Stages run in pipeline order.
C3_ShortCircuit ==
  /\ \A i \in 1..Len(runLog) :
       /\ runLog[i].stage = StageNames[i]
       /\ HasErrorMarker(runLog[i].content) => (i = Len(runLog) /\ pc = "FAILED")
  /\ (Len(runLog) >= 2 /\ HasErrorMarker(runLog[2].content))
       => /\ \A i \in 1..Len(runLog) : runLog[i].stage # "report_writer"
          /\ ~(op = "SendTask" /\ arg = agents.report_writer)

\* The processing agent answered with a marked text and the run stopped there.
C3_Witness ==
  /\ pc = "FAILED"
  /\ Len(runLog) = 2
  /\ runLog[2].stage = "data_processor"
  /\ runLog[2].why = "text"
  /\ HasErrorMarker(runLog[2].content)
  /\ posts # <<>>

\* C4: every key of the tracked map is in trailing-slash-stripped form, and
\* no two entries stand for the same url: the spellings of one url share one
\* entry.
C4_KeysNormalized ==
  /\ \A i \in 1..Len(agent_info_cache) :
       rstrip(agent_info_cache[i].url) = agent_info_cache[i].url
  /\ \A i, j \in 1..Len(agent_info_cache) :
       rstrip(agent_info_cache[i].url) = rstrip(agent_info_cache[j].url) => i = j

\* A url spelled with a trailing slash was registered when its stripped
\* spelling was already tracked, and one entry stands for both.
C4_Witness ==
  /\ op = "Register"
  /\ arg # rstrip(arg)
  /\ wasTracked
  /\ Len(SelectSeq(agent_info_cache, LAMBDA e : rstrip(e.url) = rstrip(arg))) = 1

\* C5 as stated: once populated, a url's metadata is never invalidated,
\* replaced or fetched again, whatever the calls that follow.
C5_NeverInvalidated ==
  [][\A i \in 1..Len(agent_info_cache) :
       agent_info_cache[i].info # None
         => /\ \E j \in 1..Len(agent_info_cache') : agent_info_cache'[j] = agent_info_cache[i]
            /\ \A j \in 1..Len(fetchLog') : fetchLog'[j].url # agent_info_cache[i].url]_vars

\* C5 (amended): once populated, a url's metadata is never replaced or
\* fetched again for as long as the url stays tracked; only Deregister of
\* that url removes it, together with its metadata.  (A step that leaves the
\* map as it was and fetches nothing satisfies this outright.)
C5_AtMostOnceWhileTracked ==
  [][\/ (agent_info_cache' = agent_info_cache /\ fetchLog' = <<>>)
     \/ \A i \in 1..Len(agent_info_cache) :
       agent_info_cache[i].info # None
         => /\ \A j \in 1..Len(fetchLog') : fetchLog'[j].url # agent_info_cache[i].url
            /\ \A j \in 1..Len(agent_info_cache') :
                 agent_info_cache'[j].url = agent_info_cache[i].url
                   => agent_info_cache'[j].info = agent_info_cache[i].info
            /\ (\A j \in 1..Len(agent_info_cache') :
                  agent_info_cache'[j].url # agent_info_cache[i].url)
                 => (op' = "Deregister" /\ rstrip(arg') = agent_info_cache[i].url)]_vars

\* A task was sent with the cached card, without a fetch.
C5_Witness ==
  /\ op = "SendTask"
  /\ wasTracked
  /\ fetchLog = <<>>
  /\ posts # <<>>
  /\ rstrip(arg) \in Populated(agent_info_cache)

\* C6: ListKnown never raises and a failing fetch only leaves its own
\* endpoint out: the result holds, in order, the metadata of every tracked
\* endpoint but those whose fetch failed, so with N tracked endpoints of
\* which M fail it has exactly N - M entries.
C6_ListPartial ==
  op = "ListKnown" =>
    LET failed == {fetchLog[i].url : i \in FailedFetches(fetchLog)}
        kept == SelectSeq(agent_info_cache, LAMBDA e : e.url \notin failed)
    IN /\ ret.kind = "ret"
       /\ Len(ret.val) = Len(agent_info_cache) - Cardinality(failed)
       /\ ret.val = [i \in 1..Len(kept) |-> kept[i].info]

\* Two endpoints were registered, the first is unreachable, the second
\* serves its card: one entry is returned.
C6_Witness ==
  /\ op = "ListKnown"
  /\ Len(agent_info_cache) = 2
  /\ Len(fetchLog) = 2
  /\ fetchLog[1].a = "connect_error"
  /\ fetchLog[2].a = "card_own"
  /\ Len(ret.val) = 1

\* C7: ListKnown returns no malformed metadata document: every entry of its
\* result is a document that matches the metadata schema.
C7_OnlyWellFormedListed ==
  op = "ListKnown" => \A i \in 1..Len(ret.val) : ret.val[i].k = "card"

\* C8: SendTask to a url that is not tracked, whose endpoint serves a
\* metadata document, registers it: afterwards the normalized url is tracked
\* with the fetched metadata, and a task request is sent only after that
\* fetch, to the address the fetched document declares.
C8_LazyRegistration ==
  (op = "SendTask" /\ ~wasTracked) =>
    /\ Len(fetchLog) = 1
    /\ fetchLog[1].url = rstrip(arg)
    /\ fetchLog[1].a \in ObjectAnswers
         => /\ rstrip(arg) \in Populated(agent_info_cache)
            /\ DictGet(agent_info_cache, rstrip(arg))
                 = GetOutcome(rstrip(arg), fetchLog[1].a).doc
    /\ posts # <<>>
         => /\ fetchLog[1].a \in ObjectAnswers
            /\ posts[1].to = GetOutcome(rstrip(arg), fetchLog[1].a).doc.url

\* A task was sent to a url that was not tracked, spelled with a trailing
\* slash; its card was fetched and it is now tracked under the stripped url.
C8_Witness ==
  /\ op = "SendTask"
  /\ ~wasTracked
  /\ arg # rstrip(arg)
  /\ Len(fetchLog) = 1
  /\ fetchLog[1].a = "card_own"
  /\ posts # <<>>
  /\ rstrip(arg) \in Populated(agent_info_cache)

\* C9 as stated: the task request goes to the base url SendTask was called
\* with (up to trailing slashes), whatever url the metadata declares.
C9_PostsToBaseURL ==
  op = "SendTask" => \A i \in 1..Len(posts) : rstrip(posts[i].to) = rstrip(arg)

\* C9 (amended): SendTask issues at most one task request, and issues it to
\* the url declared by the metadata document held for the normalized url it
\* was called with.
C9_PostsToDeclaredURL ==
  op = "SendTask" =>
    /\ Len(posts) <= 1
    /\ posts # <<>>
         => /\ rstrip(arg) \in Populated(agent_info_cache)
            /\ posts[1].to = DictGet(agent_info_cache, rstrip(arg)).url

\* A task request went to the address the card declares, which is not the
\* endpoint SendTask was called with.
C9_Witness ==
  /\ op = "SendTask"
  /\ posts # <<>>
  /\ posts[1].to = ElsewhereURL
  /\ rstrip(posts[1].to) # rstrip(arg)

\* The forms of the text orchestrate_workflow returns.
IsSummary(t) == Len(t) >= 2 /\ t[1] = SummaryHeader /\ t[Len(t)] = SummaryFooter
IsFailureMessage(t) == Len(t) >= 1 /\ t[1] \in {StageLabel[n] : n \in DOMAIN StageLabel}

\* C10: whatever the stages do, an exception raised inside the directory
\* client included, orchestrate_workflow returns a string and never raises:
\* the success summary when it ends in DONE, a failure message when it ends
\* in FAILED.
C10_RunReturnsString ==
  /\ result.kind # "raise"
  /\ pc = "DONE" => (result.kind = "ret" /\ IsSummary(result.val))
  /\ pc = "FAILED" => (result.kind = "ret" /\ IsFailureMessage(result.val))

\* The directory client raised in the processing stage and the run returned
\* a failure message.
C10_Witness ==
  /\ pc = "FAILED"
  /\ op = "SendTask"
  /\ ret.kind = "raise"
  /\ Len(runLog) = 2
  /\ result.kind = "ret"
  /\ IsFailureMessage(result.val)

\* The labels with which a failure message names a stage.
FailureLabels == {StageLabel[n] : n \in DOMAIN StageLabel}

\* C11: a failed run returns a message that names the failing stage and
\* embeds that stage's error text: the stage named is the earliest stage
\* whose text carries the error marker, which is the last stage the run
\* invoked, and the message names exactly one stage.
C11_FailureNamesStage ==
  pc = "FAILED" =>
    LET k == Len(runLog)
    IN /\ k \in 1..3
       /\ runLog[k].stage = StageNames[k]
       /\ HasErrorMarker(runLog[k].content)
       /\ \A i \in 1..(k - 1) : ~HasErrorMarker(runLog[i].content)
       /\ result = Returned("failed", <<StageLabel[StageNames[k]]>> \o runLog[k].content)
       /\ Cardinality({i \in 1..Len(result.val) : result.val[i] \in FailureLabels}) = 1

\* Research and processing went through, the report agent answered with a
\* marked text, and the run returned the report-generation failure message.
C11_Witness ==
  /\ pc = "FAILED"
  /\ Len(runLog) = 3
  /\ runLog[3].why = "text"
  /\ result.kind = "ret"
  /\ result.val = <<"Report generation failed: ", ErrorMarker, "R">>

\* C12: when no stage's text carries the error marker the run returns the
\* fixed summary wrapper around the report stage's text, whole and
\* unmodified: nothing is cut from it and no ellipsis is added.
C12_SummaryEmbedsReport ==
  pc = "DONE" =>
    /\ Len(runLog) = 3
    /\ \A i \in 1..3 : ~HasErrorMarker(runLog[i].content)
    /\ result = Returned("done", <<SummaryHeader>> \o runLog[3].content \o <<SummaryFooter>>)
    /\ Len(result.val) = Len(runLog[3].content) + 2

\* The report agent answered with a text longer than both cutoffs and the
\* run is DONE.
C12_Witness ==
  /\ pc = "DONE"
  /\ Len(runLog) = 3
  /\ runLog[3].why = "text"
  /\ Len(runLog[3].content) > ResearchCutoff
  /\ result.kind = "ret"
  /\ Len(result.val) > ResearchCutoff + 2

\* C13: the request of the processing stage embeds exactly the first
\* min(len, 2000) characters of the research text, in order, and no
\* character beyond position 2000: a research text of 2001 characters is
\* cut to its first 2000, a text of at most 2000 is embedded whole.
C13_ProcessingRequestCut ==
  pc = "PROCESSING" =>
    LET research_content == runLog[1].content
        n == IF Len(research_content) <= 2000 THEN Len(research_content) ELSE 2000
    IN /\ Len(request) = n + 2
       /\ request[1] = "Analyze and process this research data: "
       /\ \A i \in 1..n : request[i + 1] = research_content[i]
       /\ request[n + 2] = "..."
       /\ Len(research_content) <= 2000
            => SubSeq(request, 2, Len(request) - 1) = research_content

\* The research agent answered with 2001 characters and the processing
\* request holds 2000 of them between the instruction and the ellipsis.
C13_Witness ==
  /\ pc = "PROCESSING"
  /\ Len(runLog) = 1
  /\ Len(runLog[1].content) = 2001
  /\ Len(request) = 2002
  /\ request[2001] = "b"
  /\ runLog[1].content[2001] = "c"

\* C14: the request of the report stage embeds the first min(len, 1500)
\* characters of the research text as the research agent gave it and the
\* first min(len, 1500) characters of the processed text, so the requests
\* forwarded between stages have a length bounded by their template and the
\* cutoffs, however long the texts of the stages before.
C14_ForwardedRequestsBounded ==
  /\ pc = "REPORTING" =>
       LET research_content == runLog[1].content
           data_content == runLog[2].content
           nr == IF Len(research_content) <= 1500 THEN Len(research_content) ELSE 1500
           nd == IF Len(data_content) <= 1500 THEN Len(data_content) ELSE 1500
       IN /\ Len(request) = nr + nd + 6
          /\ \A i \in 1..nr : request[2 + i] = research_content[i]
          /\ request[nr + 3] = "..."
          /\ request[nr + 4] = "DATA ANALYSIS:"
          /\ \A i \in 1..nd : request[nr + 4 + i] = data_content[i]
          /\ request[nr + nd + 5] = "..."
          /\ request[nr + nd + 6] = "Please create a well-structured report"
  /\ pc = "PROCESSING" => Len(request) <= 2 + 2000
  /\ pc = "REPORTING" => Len(request) <= 6 + 1500 + 1500

\* Both the research agent and the processing agent answered with 2001
\* characters, and the report request holds 1500 of each.
C14_Witness ==
  /\ pc = "REPORTING"
  /\ Len(runLog) = 2
  /\ Len(runLog[1].content) = 2001
  /\ Len(runLog[2].content) = 2001
  /\ Len(request) = 3006

\* The positions <<i, j>> of the parts of env that carry a text field: part
\* j of artifact i.
TextPositions(env) ==
  {p \in (1..Len(env.artifacts)) \X (1..MaxParts + 1) :
     /\ env.artifacts[p[1]].hasParts
     /\ p[2] <= Len(env.artifacts[p[1]].parts)
     /\ env.artifacts[p[1]].parts[p[2]].hasText}

\* p comes before q when artifacts, and the parts of each, are scanned in order.
ScannedBefore(p, q) == p[1] < q[1] \/ (p[1] = q[1] /\ p[2] <= q[2])

\* C15: when send_message hands back a response, SendTask returns the text
\* of the first part that carries a text field, the artifacts of the result
\* being scanned in order and the parts of each in order; when the response
\* has no artifacts, or no part with a text field, it returns the whole
\* response serialized as formatted JSON.
C15_FirstTextOrDump ==
  (op = "SendTask" /\ lastResponse.k = "response") =>
    LET env == lastResponse.env
        hits == IF env.hasArtifacts THEN TextPositions(env) ELSE {}
    IN /\ ret.kind = "ret"
       /\ hits # {} =>
            \E p \in hits :
              /\ \A q \in hits : ScannedBefore(p, q)
              /\ ret.val = env.artifacts[p[1]].parts[p[2]].text
       /\ hits = {} => ret.val = JsonDump(env)

\* The first artifact has a part without text and then the text "P", the
\* second artifact has the text "R": "P" is returned.
C15_Witness ==
  /\ op = "SendTask"
  /\ lastResponse.k = "response"
  /\ lastResponse.env =
       Envelope(<<Artifact(<<DataPart, TextPart(<<"P">>)>>), Artifact(<<TextPart(<<"R">>)>>)>>)
  /\ ret = Returned("text", <<"P">>)

\* The response has artifacts but no part with a text field, and the dump
\* of the response is returned.
C15_WitnessDump ==
  /\ op = "SendTask"
  /\ lastResponse.k = "response"
  /\ lastResponse.env = Envelope(<<ArtifactNoParts, Artifact(<<DataPart>>)>>)
  /\ ret = Returned("text", JsonDump(lastResponse.env))

\* C16: Register is lazy and idempotent: it makes no fetch and sends
\* nothing; a url that is not tracked is added, normalized, after the other
\* entries with its metadata unpopulated; registering a url that is tracked,
\* in either spelling, leaves the whole map as it was, populated metadata
\* included.
C16_RegisterLazyIdempotent ==
  [][op' = "Register" =>
       /\ fetchLog' = <<>>
       /\ posts' = <<>>
       /\ ret'.kind = "ret"
       /\ IF \E i \in 1..Len(agent_info_cache) : agent_info_cache[i].url = rstrip(arg')
          THEN agent_info_cache' = agent_info_cache
          ELSE agent_info_cache' =
                 agent_info_cache \o <<[url |-> rstrip(arg'), info |-> None]>>]_vars

\* A url whose metadata is populated was registered again, spelled with a
\* trailing slash, next to another entry, and its metadata is still there.
C16_Witness ==
  /\ op = "Register"
  /\ wasTracked
  /\ arg # rstrip(arg)
  /\ Len(agent_info_cache) = 2
  /\ \E i \in 1..2 : agent_info_cache[i].url = rstrip(arg) /\ agent_info_cache[i].info.k = "card"

\* C17: Deregister(url) removes the entry of the normalized url, metadata
\* included, and leaves every other entry, its metadata and the order of the
\* entries as they were; when the url is not tracked it returns without an
\* error and the map is unchanged.  It makes no fetch and sends nothing.
C17_DeregisterFrame ==
  [][op' = "Deregister" =>
       /\ ret'.kind = "ret"
       /\ fetchLog' = <<>>
       /\ posts' = <<>>
       /\ \A j \in 1..Len(agent_info_cache') : agent_info_cache'[j].url # rstrip(arg')
       /\ agent_info_cache' = SelectSeq(agent_info_cache, LAMBDA e : e.url # rstrip(arg'))
       /\ (\A i \in 1..Len(agent_info_cache) : agent_info_cache[i].url # rstrip(arg'))
            => agent_info_cache' = agent_info_cache]_vars

\* A tracked url was deregistered, spelled with a trailing slash, and the
\* other entry is still there with its populated metadata.
C17_Witness ==
  /\ op = "Deregister"
  /\ wasTracked
  /\ arg # rstrip(arg)
  /\ Len(agent_info_cache) = 1
  /\ agent_info_cache[1].url # rstrip(arg)
  /\ agent_info_cache[1].info.k = "card"

\* C18: a pipeline run is strictly sequential.  At most one task request is
\* outstanding at any time; the create_task calls of a run go to the
\* research, processing and report endpoints in that order, each endpoint
\* being called at most once; and the call of a stage is made only after
\* every stage before it has completed, its response received.
C18_StrictlySequential ==
  /\ Len(inflight) <= 1
  /\ Len(callLog) <= 3
  /\ \A i \in 1..Len(callLog) : callLog[i] = agents[StageNames[i]]
  /\ \A i, j \in 1..Len(callLog) : callLog[i] = callLog[j] => i = j
  /\ Len(callLog) = Len(runLog) + (IF awaiting THEN 1 ELSE 0)
  /\ inflight # <<>> =>
       /\ awaiting
       /\ pc = StageState[StageNames[Len(callLog)]]
       /\ inflight[1].text = request
       /\ \A i \in 1..Len(runLog) : runLog[i].stage = StageNames[i]

\* The report request is outstanding: the research and processing agents
\* have answered their requests and three calls were made, one to each endpoint.
C18_Witness ==
  /\ pc = "REPORTING"
  /\ awaiting
  /\ Len(inflight) = 1
  /\ Len(runLog) = 2
  /\ runLog[1].why = "text"
  /\ runLog[2].why = "text"
  /\ callLog = <<agents.research_analyst, agents.data_processor, agents.report_writer>>

\* C19: any two task requests built by the client carry distinct messageId
\* values and distinct request ids, whether they were built for the same
\* url and text or not, and no identifier is used twice, as a messageId or
\* as a request id.
C19_IdsDistinct ==
  /\ \A i, j \in 1..Len(requestLog) :
       i # j => /\ requestLog[i].messageId # requestLog[j].messageId
                /\ requestLog[i].id # requestLog[j].id
  /\ \A i, j \in 1..Len(requestLog) : requestLog[i].messageId.uuid # requestLog[j].id.uuid
  /\ (op = "SendTask" /\ posts # <<>>) => requestLog # <<>>

\* Two requests were built, the second for the same url and text as the
\* first, with the card held from the first call.
C19_Witness ==
  /\ Len(requestLog) = 2
  /\ op = "SendTask"
  /\ posts # <<>>
  /\ fetchLog = <<>>
  /\ requestLog[1].messageId # requestLog[2].messageId

\* C20: StatusCheck never raises and returns exactly one entry for each of
\* the three configured endpoints, in their order; the entry of an endpoint
\* depends on the answer of that endpoint alone, whatever the others do
\* (200, another status, a body that is not JSON, no connection); and the
\* call leaves the tracked set and the cached metadata of the directory
\* client as they were, sends no task request and does not touch the state
\* of the pipeline.
C20_StatusCheckFrame ==
  [][op' = "StatusCheck" =>
       /\ ret'.kind = "ret"
       /\ Len(ret'.val) = 3
       /\ Len(fetchLog') = 3
       /\ \A i \in 1..3 :
            /\ ret'.val[i].name = StageNames[i]
            /\ fetchLog'[i].url = agents[StageNames[i]]
            /\ fetchLog'[i].a = "card_own" <=> ret'.val[i].text[1] = "Available - "
            /\ fetchLog'[i].a = "http_error" <=> ret'.val[i].text = <<"Not responding">>
            /\ fetchLog'[i].a \in {"connect_error", "not_json", "null"}
                 <=> ret'.val[i].text[1] = "Unreachable - "
       /\ agent_info_cache' = agent_info_cache
       /\ posts' = <<>>
       /\ <<pc, request, runLog, result>>' = <<pc, request, runLog, result>>]_vars

\* The research endpoint is unreachable, the processing endpoint serves
\* its card and the report endpoint answers with a body that is not JSON;
\* the client holds metadata fetched by an earlier listing.
C20_Witness ==
  /\ op = "StatusCheck"
  /\ fetchLog[1].a = "connect_error"
  /\ fetchLog[2].a = "card_own"
  /\ fetchLog[3].a = "not_json"
  /\ ret.kind = "ret"
  /\ ret.val[2].text = <<"Available - ", "name">>
  /\ Len(agent_info_cache) = 3
  /\ agent_info_cache[1].info.k = "card"

\* C21: SendTask sends a task request only once the metadata of the
\* destination is held and makes a valid agent card: when the fetch fails or
\* the document is not a valid card no task request is issued; and when the
\* metadata of the destination is already cached, SendTask makes no fetch.
C21_SendOnlyWithCard ==
  [][op' = "SendTask" =>
       IF CardCached(agent_info_cache, rstrip(arg'))
       THEN /\ fetchLog' = <<>>
            /\ posts' # <<>> => DictGet(agent_info_cache, rstrip(arg')).k = "card"
       ELSE /\ Len(fetchLog') = 1
            /\ fetchLog'[1].url = rstrip(arg')
            /\ posts' # <<>> =>
                 /\ fetchLog'[1].a \in {"card_own", "card_elsewhere"}
                 /\ CardCached(agent_info_cache', rstrip(arg'))
                 /\ DictGet(agent_info_cache', rstrip(arg')).k = "card"]_vars

\* A task was sent to a tracked url whose metadata had to be fetched first,
\* and the card that was fetched is held.
C21_Witness ==
  /\ op = "SendTask"
  /\ wasTracked
  /\ Len(fetchLog) = 1
  /\ fetchLog[1].a = "card_own"
  /\ posts # <<>>
  /\ DictGet(agent_info_cache, rstrip(arg)).k = "card"

\* The order of the states of a run.
StageRank ==
  [INIT |-> 0, RESEARCHING |-> 1, PROCESSING |-> 2, REPORTING |-> 3,
   DONE |-> 4, FAILED |-> 4]

\* C22: every pipeline run terminates: a run that is under way eventually
\* reaches DONE or FAILED, it makes at most three task exchanges, and until it
\* ends it never goes back to an earlier stage.
C22_RunTerminates ==
  /\ [](pc \in {"RESEARCHING", "PROCESSING", "REPORTING"} => <>(pc \in {"DONE", "FAILED"}))
  /\ [](Len(callLog) <= 3)
  /\ [][pc \notin {"DONE", "FAILED"} => StageRank[pc'] >= StageRank[pc]]_vars

\* A run has ended DONE after three task exchanges, each answered with a text.
C22_Witness ==
  /\ pc = "DONE"
  /\ Len(callLog) = 3
  /\ Len(runLog) = 3
  /\ \A i \in 1..3 : runLog[i].why = "text"
  /\ result.kind = "ret"

\* C23: ListKnown never changes which urls are tracked.  When it has returned,
\* an entry that was populated is as it was, was not fetched, and its
\* metadata is among those returned; an entry that was not populated was
\* fetched once, holds the document served when the fetch gave one, and is
\* still tracked and not populated when the fetch failed (a body of JSON null
\* gives no document and leaves the entry not populated).
C23_ListKnownFrame ==
  [][op' = "ListKnown" =>
       /\ Len(agent_info_cache') = Len(agent_info_cache)
       /\ \A i \in 1..Len(agent_info_cache) :
            LET e == agent_info_cache[i]
                recs == {j \in 1..Len(fetchLog') : fetchLog'[j].url = e.url}
            IN /\ agent_info_cache'[i].url = e.url
               /\ IF e.info # None
                  THEN /\ agent_info_cache'[i].info = e.info
                       /\ recs = {}
                       /\ \E k \in 1..Len(ret'.val) : ret'.val[k] = e.info
                  ELSE /\ Cardinality(recs) = 1
                       /\ \A j \in recs :
                            IF fetchLog'[j].a \in ObjectAnswers
                            THEN /\ agent_info_cache'[i].info = GetOutcome(e.url, fetchLog'[j].a).doc
                                 /\ agent_info_cache'[i].info # None
                            ELSE agent_info_cache'[i].info = None]_vars

\* ListKnown has returned with one entry served from the cache, one fetched
\* and populated, and one whose fetch failed still tracked and not populated.
C23_Witness ==
  /\ op = "ListKnown"
  /\ Len(agent_info_cache) = 3
  /\ Len(fetchLog) = 2
  /\ \E i, j \in 1..2 :
       /\ fetchLog[i].a = "card_own"
       /\ DictGet(agent_info_cache, fetchLog[i].url).k = "card"
       /\ fetchLog[j].a = "connect_error"
       /\ DictGet(agent_info_cache, fetchLog[j].url) = None
  /\ Cardinality(Populated(agent_info_cache)) = 2

\* C27: a SendTask call that returns a metadata error (the fetch failed, the
\* document is not JSON, or it does not make an agent card) leaves the tracked
\* set and all cached metadata exactly as they were before the call.
C27_MetadataErrorLeavesCache ==
  [][(/\ op' = "SendTask"
      /\ ret'.kind = "ret"
      /\ ret'.why \in {"fetch_error", "json_error", "card_error"})
       => agent_info_cache' = agent_info_cache]_vars

\* C28: a stage fails exactly when its text carries 'Error:' anywhere.  The
\* run is FAILED exactly when the text of its last stage carries the marker,
\* whatever the agent meant by it; and a text without the marker is always
\* taken as success: it is built into the request of the next stage, or into
\* the summary when it is the report.
C28_FailedIffMarked ==
  /\ pc = "FAILED" <=> (runLog # <<>> /\ HasErrorMarker(runLog[Len(runLog)].content))
  /\ \A i \in 1..Len(runLog) :
       HasErrorMarker(runLog[i].content) => i = Len(runLog)
  /\ (runLog # <<>> /\ ~HasErrorMarker(runLog[Len(runLog)].content)) =>
       CASE Len(runLog) = 1 ->
              pc = "PROCESSING" /\ request = data_message(runLog[1].content)
         [] Len(runLog) = 2 ->
              /\ pc = "REPORTING"
              /\ request = report_message(runLog[1].content, runLog[2].content)
         [] OTHER ->
              pc = "DONE" /\ result = Returned("done", final_result(runLog[3].content))

\* An agent answered its task with a text that carries the marker past its
\* start, and the run ended FAILED at that stage.
C28_Witness ==
  /\ pc = "FAILED"
  /\ Len(runLog) = 2
  /\ runLog[2].why = "text"
  /\ runLog[2].content[1] # ErrorMarker
  /\ HasErrorMarker(runLog[2].content)
  /\ result.val = FailureMessage("data_processor", runLog[2].content)

\* C24: when two SendTask calls for the same url not yet cached interleave on
\* one client, the metadata document of the url is still fetched at most
\* once (no two calls await a fetch of it together), and a cached value, once
\* written, is not overwritten.
C24_InterleavedFetchOnce ==
  [][/\ \A c1, c2 \in CallIds :
          (c1 # c2 /\ calls'[c1].pc = "fetching" /\ calls'[c2].pc = "fetching")
            => calls'[c1].url # calls'[c2].url
     /\ \A u \in DictKeys(agent_info_cache) :
          (CardCached(agent_info_cache, u) /\ DictHas(agent_info_cache', u))
            => DictGet(agent_info_cache', u) = DictGet(agent_info_cache, u)]_vars

\* C26: once Deregister(url) has completed, url stays absent from the tracked
\* set until a later Register(url) or SendTask(url) call is started, also
\* when a SendTask(url) started before is still awaiting its fetch.
C26_StaysAbsent ==
  \A u \in removed : ~DictHas(agent_info_cache, u)

\* C25: a ListKnown that runs on one thread while another thread calls
\* Register, Deregister or SendTask on the same client completes without
\* raising, and the metadata it returns is of urls that were tracked at some
\* point during the call.
C25_ListKnownCompletes ==
  listing.pc = "done" =>
    /\ listing.ret.kind = "ret"
    /\ \A i \in 1..Len(listing.from) : listing.from[i] \in listing.tracked

\* The requests and the result of run r are built from the topic of r and
\* from the texts r received at its own stages.
RunOwnData(r) ==
  /\ \A i \in 1..Len(r.runLog) : r.runLog[i].stage = StageNames[i]
  /\ r.pc = "RESEARCHING" =>
       r.runLog = <<>> /\ r.request = research_message(r.user_request)
  /\ r.pc = "PROCESSING" =>
       Len(r.runLog) = 1 /\ r.request = data_message(r.runLog[1].content)
  /\ r.pc = "REPORTING" =>
       /\ Len(r.runLog) = 2
       /\ r.request = report_message(r.runLog[1].content, r.runLog[2].content)
  /\ r.pc = "DONE" =>
       /\ Len(r.runLog) = 3
       /\ r.result = Returned("done", final_result(r.runLog[3].content))
  /\ r.pc = "FAILED" =>
       /\ r.runLog # <<>>
       /\ r.result = Returned("failed",
            FailureMessage(StageNames[Len(r.runLog)], r.runLog[Len(r.runLog)].content))

\* C29: two orchestrate_workflow runs interleaved on the shared orchestrator
\* and its one client do not mix stage data.  The requests and the result of
\* each run are built from its own topic and the texts of its own stages; a
\* step of one run adds to that run the text the step received and leaves
\* the other run as it is; a run resumes with what it had when it gave up
\* the event loop.
C29_RunsDoNotMix ==
  /\ [](RunOwnData(RunState) /\ RunOwnData(other))
  /\ [][/\ op' = "Switch" => (other' = RunState /\ RunState' = other)
        /\ op' # "Switch" => other' = other
        /\ (op' = "SendTask" /\ runLog' # runLog) =>
             runLog' = Append(runLog,
               [stage |-> StageNames[Len(runLog) + 1],
                content |-> extract_text_from_response(send_message_to_agent(ret')),
                why |-> ret'.why])]_vars

\* One run has ended DONE while the other, called with another topic, is
\* suspended in its processing stage with another research text.
C29_Witness ==
  /\ pc = "DONE"
  /\ other.pc = "PROCESSING"
  /\ other.awaiting
  /\ other.user_request # user_request
  /\ other.runLog[1].content # runLog[1].content
  /\ other.request = data_message(other.runLog[1].content)

\* The updates in out that say the task goes on: both flags false.
Intermediate(u) == ~u.is_task_complete /\ ~u.require_user_input

\* The number of messages in items for which the loop yields an update.
RECURSIVE ToolSteps(_)
ToolSteps(items) ==
  IF items = <<>> THEN 0
  ELSE Len(StreamItemYield(Head(items))) + ToolSteps(Tail(items))

\* C30: stream yields every intermediate update with is_task_complete false
\* and require_user_input false, and exactly one final response, as its last
\* item; in it is_task_complete is true exactly when the status of the
\* structured response is 'completed', and require_user_input is true in
\* every other case; the two flags are never both true.
C30_StreamFlags ==
  /\ \A i \in 1..Len(gen.out) : ~(gen.out[i].is_task_complete /\ gen.out[i].require_user_input)
  /\ gen.pc \in {"streaming", "raised"} =>
       \A i \in 1..Len(gen.out) : Intermediate(gen.out[i])
  /\ gen.pc = "done" =>
       /\ Len(gen.out) = ToolSteps(gen.input) + 1
       /\ \A i \in 1..(Len(gen.out) - 1) : Intermediate(gen.out[i])
       /\ gen.out[Len(gen.out)].is_task_complete = (gen.structured_response = "completed")
       /\ gen.out[Len(gen.out)].require_user_input = (gen.structured_response # "completed")

\* A stream has ended after two intermediate updates with the final response
\* of a structured response of status error.
C30_Witness ==
  /\ gen.pc = "done"
  /\ gen.structured_response = "error"
  /\ Len(gen.out) = 3
  /\ gen.out[3].require_user_input
  /\ ~gen.out[3].is_task_complete

====
